---- MODULE Spec2Model ----
(***************************************************************************)
(* Model of the RevoraRevenueShare contract (src/src/lib.rs): the          *)
(* persistent storage behind the three DataKey variants, the event stream  *)
(* of the host, and one action per mutating entry point.  Every entry      *)
(* point runs as one host transaction: a panic (failed require_auth or an  *)
(* explicit panic!) rolls the transaction back, so a failed call leaves    *)
(* storage and events as they were.                                        *)
(***************************************************************************)
EXTENDS Integers, Sequences, FiniteSets, TLC

\* ---------------------------------------------------------------------
\* Bounds and input domains
\* ---------------------------------------------------------------------

\* Largest number of events the model lets the host publish.
MaxEvents == 2

\* Largest number of offerings one issuer holds in the paging
\* specifications.
MaxOfferings == 25

\* Addresses are opaque and totally ordered in the host; naturals here.
\* Any address may be used as issuer, token, caller or investor.
Addresses == {1, 2}

\* Upper limit of revenue_share_bps (the literal 10_000 in register_offering).
MaxBps == 10000

\* Sampled u32 values of revenue_share_bps: both ends of the valid range
\* and the first invalid value.
BpsValues == {0, MaxBps, MaxBps + 1}

\* Sampled i128 amounts and u64 period ids of report_revenue.
Amounts == {1000000}
Periods == {7}

VARIABLES
    storage,    \* env.storage().persistent(): DataKey -> Option<value>
    events,     \* env.events(): the published events, oldest first
    lastCall,   \* name of the entry point invoked last ("none" at start)
    result,     \* outcome of that invocation: "Ok" or the kind of panic
    ret,        \* value that invocation returned (Unit for "()" and panics)
    walk        \* a client that pages through an issuer's offerings

vars == <<storage, events, lastCall, result, ret, walk>>

\* The return value "()".
Unit == << >>

\* The paging client before it is started.
NoWalk == [owner |-> 0, count |-> 0, issuer |-> 0, start |-> 0, limit |-> 0,
           cursor |-> << >>, seen |-> << >>, sizes |-> << >>]

\* ---------------------------------------------------------------------
\* Option<T>, Vec<T>, Map<K, V>
\* ---------------------------------------------------------------------

None == << >>
Some(v) == <<v>>
IsSome(o) == o # None
Unwrap(o) == o[1]
UnwrapOr(o, d) == IF IsSome(o) THEN Unwrap(o) ELSE d

VecNew == << >>
PushBack(v, x) == Append(v, x)
VecSet(v) == {v[k] : k \in 1..Len(v)}

MapNew == << >>
MapSet(m, k, v) == [x \in (DOMAIN m) \cup {k} |-> IF x = k THEN v ELSE m[x]]
MapRemove(m, k) == [x \in (DOMAIN m) \ {k} |-> m[x]]
MapGet(m, k) == IF k \in DOMAIN m THEN Some(m[k]) ELSE None

\* Ascending sequence of the elements of a finite set of naturals.
RECURSIVE SortedSeq(_)
SortedSeq(S) ==
    IF S = {} THEN << >>
    ELSE LET lo == CHOOSE x \in S : \A y \in S : x <= y
         IN  <<lo>> \o SortedSeq(S \ {lo})

\* Map::keys(): the keys in the map's (ascending) key order.
MapKeys(m) == SortedSeq(DOMAIN m)

\* ---------------------------------------------------------------------
\* Types and storage keys
\* ---------------------------------------------------------------------

OfferingStatus == {"Active", "Suspended", "Closed"}

Offering(issuer, token, bps, status) ==
    [issuer |-> issuer, token |-> token,
     revenue_share_bps |-> bps, status |-> status]

KeyBlacklist(token) == <<"Blacklist", token>>
KeyOffering(issuer, token) == <<"Offering", issuer, token>>
KeyIssuerOfferings(issuer) == <<"IssuerOfferings", issuer>>

DataKey ==
    {KeyBlacklist(t) : t \in Addresses}
    \cup {KeyOffering(i, t) : i \in Addresses, t \in Addresses}
    \cup {KeyIssuerOfferings(i) : i \in Addresses}

\* persistent().has / get / set
Has(s, key) == IsSome(s[key])
Get(s, key) == s[key]
Set(s, key, v) == [s EXCEPT ![key] = Some(v)]

\* ---------------------------------------------------------------------
\* Queries (read-only entry points), as functions of a storage value
\* ---------------------------------------------------------------------

get_offering(s, issuer, token) == Get(s, KeyOffering(issuer, token))

list_offerings(s, issuer) == UnwrapOr(Get(s, KeyIssuerOfferings(issuer)), VecNew)

\* Page size used when the requested limit is 0 or larger than this.
MAX_PAGE_LIMIT == 20

Min(a, b) == IF a <= b THEN a ELSE b

get_offering_count(s, issuer) == Len(list_offerings(s, issuer))

\* The page <<items, next cursor>> of the issuer's offerings that begins
\* at index start (counted from 0), derived from the issuer's ordered
\* index and the direct lookup of each listed token.
get_offerings_page(s, issuer, start, limit) ==
    LET count == get_offering_count(s, issuer)
        effective_limit == IF limit = 0 \/ limit > MAX_PAGE_LIMIT
                           THEN MAX_PAGE_LIMIT ELSE limit
        end == Min(start + effective_limit, count)
        tokens == list_offerings(s, issuer)
    IN  IF start >= count
        THEN <<VecNew, None>>
        ELSE <<[k \in 1..(end - start) |->
                   Unwrap(get_offering(s, issuer, tokens[start + k]))],
               IF end < count THEN Some(end) ELSE None>>

\* Variant: a token without a blacklist counts every investor as listed.
is_blacklisted_DefaultTrue(s, token, investor) ==
    LET o == Get(s, KeyBlacklist(token)) IN
    IF IsSome(o) THEN UnwrapOr(MapGet(Unwrap(o), investor), FALSE) ELSE TRUE

is_blacklisted(s, token, investor) ==
    LET o == Get(s, KeyBlacklist(token)) IN
    IF IsSome(o) THEN UnwrapOr(MapGet(Unwrap(o), investor), FALSE) ELSE FALSE

get_blacklist(s, token) ==
    LET o == Get(s, KeyBlacklist(token)) IN
    IF IsSome(o) THEN MapKeys(Unwrap(o)) ELSE VecNew

\* ---------------------------------------------------------------------
\* Events: <<topics, data>>
\* ---------------------------------------------------------------------

EvOfferReg(issuer, token, bps) == <<<<"offer_reg", issuer>>, <<token, bps>>>>
EvRevenueReported(issuer, token, amount, period_id, blacklist) ==
    <<<<"rev_rep", issuer, token>>, <<amount, period_id, blacklist>>>>
EvBlAdd(token, caller, investor) == <<<<"bl_add", token, caller>>, <<investor>>>>
EvBlRem(token, caller, investor) == <<<<"bl_rem", token, caller>>, <<investor>>>>

\* ---------------------------------------------------------------------
\* Outcomes of an invocation
\* ---------------------------------------------------------------------

\* The invocation panicked: the host discards its writes and events.
Panic(op, kind) ==
    /\ lastCall' = op
    /\ result' = kind
    /\ UNCHANGED <<storage, events>>

\* The invocation returned: its writes and its event are committed.
Commit(op, s, ev) ==
    /\ Len(events) < MaxEvents
    /\ lastCall' = op
    /\ result' = "Ok"
    /\ storage' = s
    /\ events' = Append(events, ev)

\* ---------------------------------------------------------------------
\* Entry points.  auth is the outcome of require_auth for the call.
\* ---------------------------------------------------------------------

\* --- register_offering ------------------------------------------------

\* Variant of RegisterWrites that inserts the token at the front of the index.
RegisterWrites_PushFront(issuer, token, revenue_share_bps) ==
    LET offering == Offering(issuer, token, revenue_share_bps, "Active")
        s1 == Set(storage, KeyOffering(issuer, token), offering)
        tokens == UnwrapOr(Get(s1, KeyIssuerOfferings(issuer)), VecNew)
        s2 == Set(s1, KeyIssuerOfferings(issuer), <<token>> \o tokens)
    IN  Commit("register_offering", s2,
               EvOfferReg(issuer, token, revenue_share_bps))

\* Variant of RegisterWrites that files the index under the token's key.
RegisterWrites_TokenIndex(issuer, token, revenue_share_bps) ==
    LET offering == Offering(issuer, token, revenue_share_bps, "Active")
        s1 == Set(storage, KeyOffering(issuer, token), offering)
        tokens == UnwrapOr(Get(s1, KeyIssuerOfferings(token)), VecNew)
        s2 == Set(s1, KeyIssuerOfferings(token), PushBack(tokens, token))
    IN  Commit("register_offering", s2,
               EvOfferReg(issuer, token, revenue_share_bps))

\* Variant of RegisterWrites that also starts the token with an empty
\* blacklist.
RegisterWrites_ResetBlacklist(issuer, token, revenue_share_bps) ==
    LET offering == Offering(issuer, token, revenue_share_bps, "Active")
        s1 == Set(storage, KeyOffering(issuer, token), offering)
        tokens == UnwrapOr(Get(s1, KeyIssuerOfferings(issuer)), VecNew)
        s2 == Set(s1, KeyIssuerOfferings(issuer), PushBack(tokens, token))
        s3 == Set(s2, KeyBlacklist(token), MapNew)
    IN  Commit("register_offering", s3,
               EvOfferReg(issuer, token, revenue_share_bps))

\* The part of register_offering behind its checks: store the offering,
\* append the token to the issuer's index, publish the event.
RegisterWrites(issuer, token, revenue_share_bps) ==
    LET offering == Offering(issuer, token, revenue_share_bps, "Active")
        s1 == Set(storage, KeyOffering(issuer, token), offering)
        tokens == UnwrapOr(Get(s1, KeyIssuerOfferings(issuer)), VecNew)
        s2 == Set(s1, KeyIssuerOfferings(issuer), PushBack(tokens, token))
    IN  Commit("register_offering", s2,
               EvOfferReg(issuer, token, revenue_share_bps))

\* Variant: the new token is put at the front of the issuer's index.
StoreOffering_PushFront(s, issuer, token, revenue_share_bps) ==
    LET offering == Offering(issuer, token, revenue_share_bps, "Active")
        s1 == Set(s, KeyOffering(issuer, token), offering)
        tokens == UnwrapOr(Get(s1, KeyIssuerOfferings(issuer)), VecNew)
    IN  Set(s1, KeyIssuerOfferings(issuer), <<token>> \o tokens)

\* Variant: the index is rebuilt from an empty Vec instead of the stored one.
StoreOffering_FreshIndex(s, issuer, token, revenue_share_bps) ==
    LET offering == Offering(issuer, token, revenue_share_bps, "Active")
        s1 == Set(s, KeyOffering(issuer, token), offering)
    IN  Set(s1, KeyIssuerOfferings(issuer), PushBack(VecNew, token))

\* The storage that a successful register_offering leaves, as a function
\* of the storage s it starts from (the same writes as RegisterWrites).
StoreOffering(s, issuer, token, revenue_share_bps) ==
    LET offering == Offering(issuer, token, revenue_share_bps, "Active")
        s1 == Set(s, KeyOffering(issuer, token), offering)
        tokens == UnwrapOr(Get(s1, KeyIssuerOfferings(issuer)), VecNew)
    IN  Set(s1, KeyIssuerOfferings(issuer), PushBack(tokens, token))

\* Variant: the existence check looks up Offering(token, issuer).
register_offering_SwappedKey(issuer, token, revenue_share_bps, auth) ==
    IF ~auth THEN Panic("register_offering", "Unauthorized")
    ELSE IF revenue_share_bps > MaxBps
    THEN Panic("register_offering", "InvalidParameter")
    ELSE IF Has(storage, KeyOffering(token, issuer))
    THEN Panic("register_offering", "AlreadyExists")
    ELSE RegisterWrites(issuer, token, revenue_share_bps)

\* Variant: the range check rejects 10000 as well (>= for >).
register_offering_StrictBps(issuer, token, revenue_share_bps, auth) ==
    IF ~auth THEN Panic("register_offering", "Unauthorized")
    ELSE IF revenue_share_bps >= MaxBps
    THEN Panic("register_offering", "InvalidParameter")
    ELSE IF Has(storage, KeyOffering(issuer, token))
    THEN Panic("register_offering", "AlreadyExists")
    ELSE RegisterWrites(issuer, token, revenue_share_bps)

\* Variant: no existence check.
register_offering_NoDupCheck(issuer, token, revenue_share_bps, auth) ==
    IF ~auth THEN Panic("register_offering", "Unauthorized")
    ELSE IF revenue_share_bps > MaxBps
    THEN Panic("register_offering", "InvalidParameter")
    ELSE RegisterWrites(issuer, token, revenue_share_bps)

\* Variant: no range check.
register_offering_NoBpsCheck(issuer, token, revenue_share_bps, auth) ==
    IF ~auth THEN Panic("register_offering", "Unauthorized")
    ELSE IF Has(storage, KeyOffering(issuer, token))
    THEN Panic("register_offering", "AlreadyExists")
    ELSE RegisterWrites(issuer, token, revenue_share_bps)

\* Variant: an existing offering is overwritten in place instead of rejected.
register_offering_Upsert(issuer, token, revenue_share_bps, auth) ==
    IF ~auth THEN Panic("register_offering", "Unauthorized")
    ELSE IF revenue_share_bps > MaxBps
    THEN Panic("register_offering", "InvalidParameter")
    ELSE IF Has(storage, KeyOffering(issuer, token))
    THEN Commit("register_offering",
                Set(storage, KeyOffering(issuer, token),
                    Offering(issuer, token, revenue_share_bps, "Active")),
                EvOfferReg(issuer, token, revenue_share_bps))
    ELSE RegisterWrites(issuer, token, revenue_share_bps)

register_offering(issuer, token, revenue_share_bps, auth) ==
    IF ~auth THEN Panic("register_offering", "Unauthorized")
    ELSE IF revenue_share_bps > MaxBps
    THEN Panic("register_offering", "InvalidParameter")
    ELSE IF Has(storage, KeyOffering(issuer, token))
    THEN Panic("register_offering", "AlreadyExists")
    ELSE RegisterWrites(issuer, token, revenue_share_bps)

\* --- report_revenue ---------------------------------------------------

\* Variant: the snapshot is read from the issuer's blacklist key.
report_revenue_IssuerKey(issuer, token, amount, period_id, auth) ==
    IF ~auth THEN Panic("report_revenue", "Unauthorized")
    ELSE
      LET blacklist == get_blacklist(storage, issuer)
      IN  Commit("report_revenue", storage,
                 EvRevenueReported(issuer, token, amount, period_id, blacklist))

\* Variant: the blacklist map is read get-or-create and written back.
report_revenue_WriteBack(issuer, token, amount, period_id, auth) ==
    IF ~auth THEN Panic("report_revenue", "Unauthorized")
    ELSE
      LET map == UnwrapOr(Get(storage, KeyBlacklist(token)), MapNew)
          s1 == Set(storage, KeyBlacklist(token), map)
      IN  Commit("report_revenue", s1,
                 EvRevenueReported(issuer, token, amount, period_id,
                                   MapKeys(map)))

report_revenue(issuer, token, amount, period_id, auth) ==
    IF ~auth THEN Panic("report_revenue", "Unauthorized")
    ELSE
      LET blacklist == get_blacklist(storage, token)
      IN  Commit("report_revenue", storage,
                 EvRevenueReported(issuer, token, amount, period_id, blacklist))

\* --- blacklist_add / blacklist_remove ---------------------------------

\* Variant: no require_auth.
blacklist_add_NoAuth(caller, token, investor, auth) ==
    LET map == UnwrapOr(Get(storage, KeyBlacklist(token)), MapNew)
        s1 == Set(storage, KeyBlacklist(token), MapSet(map, investor, TRUE))
    IN  Commit("blacklist_add", s1, EvBlAdd(token, caller, investor))

\* Variant: adding a listed investor takes it off the list again.
blacklist_add_Toggle(caller, token, investor, auth) ==
    IF ~auth THEN Panic("blacklist_add", "Unauthorized")
    ELSE
      LET map == UnwrapOr(Get(storage, KeyBlacklist(token)), MapNew)
          new == IF investor \in DOMAIN map THEN MapRemove(map, investor)
                 ELSE MapSet(map, investor, TRUE)
          s1 == Set(storage, KeyBlacklist(token), new)
      IN  Commit("blacklist_add", s1, EvBlAdd(token, caller, investor))

\* Variant: the blacklist is keyed by the caller instead of the token.
blacklist_add_CallerKey(caller, token, investor, auth) ==
    IF ~auth THEN Panic("blacklist_add", "Unauthorized")
    ELSE
      LET map == UnwrapOr(Get(storage, KeyBlacklist(caller)), MapNew)
          s1 == Set(storage, KeyBlacklist(caller), MapSet(map, investor, TRUE))
      IN  Commit("blacklist_add", s1, EvBlAdd(token, caller, investor))

\* Variant: returns early, without an event, when the investor is listed.
blacklist_add_QuietNoop(caller, token, investor, auth) ==
    IF ~auth THEN Panic("blacklist_add", "Unauthorized")
    ELSE
      LET map == UnwrapOr(Get(storage, KeyBlacklist(token)), MapNew)
          s1 == Set(storage, KeyBlacklist(token), MapSet(map, investor, TRUE))
      IN  IF investor \in DOMAIN map
          THEN /\ lastCall' = "blacklist_add"
               /\ result' = "Ok"
               /\ UNCHANGED <<storage, events>>
          ELSE Commit("blacklist_add", s1, EvBlAdd(token, caller, investor))

\* Variant: only the issuer of an offering of the token may curate.
blacklist_add_OwnerOnly(caller, token, investor, auth) ==
    IF ~auth \/ ~Has(storage, KeyOffering(caller, token))
    THEN Panic("blacklist_add", "Unauthorized")
    ELSE
      LET map == UnwrapOr(Get(storage, KeyBlacklist(token)), MapNew)
          s1 == Set(storage, KeyBlacklist(token), MapSet(map, investor, TRUE))
      IN  Commit("blacklist_add", s1, EvBlAdd(token, caller, investor))

blacklist_add(caller, token, investor, auth) ==
    IF ~auth THEN Panic("blacklist_add", "Unauthorized")
    ELSE
      LET map == UnwrapOr(Get(storage, KeyBlacklist(token)), MapNew)
          s1 == Set(storage, KeyBlacklist(token), MapSet(map, investor, TRUE))
      IN  Commit("blacklist_add", s1, EvBlAdd(token, caller, investor))

\* Variant: the whole map is dropped instead of the one entry.
blacklist_remove_Clear(caller, token, investor, auth) ==
    IF ~auth THEN Panic("blacklist_remove", "Unauthorized")
    ELSE
      LET map == UnwrapOr(Get(storage, KeyBlacklist(token)), MapNew)
          s1 == Set(storage, KeyBlacklist(token), MapNew)
      IN  Commit("blacklist_remove", s1, EvBlRem(token, caller, investor))

\* Variant: the entry is kept with the marker false instead of removed.
blacklist_remove_MarkFalse(caller, token, investor, auth) ==
    IF ~auth THEN Panic("blacklist_remove", "Unauthorized")
    ELSE
      LET map == UnwrapOr(Get(storage, KeyBlacklist(token)), MapNew)
          s1 == Set(storage, KeyBlacklist(token), MapSet(map, investor, FALSE))
      IN  Commit("blacklist_remove", s1, EvBlRem(token, caller, investor))

blacklist_remove(caller, token, investor, auth) ==
    IF ~auth THEN Panic("blacklist_remove", "Unauthorized")
    ELSE
      LET map == UnwrapOr(Get(storage, KeyBlacklist(token)), MapNew)
          s1 == Set(storage, KeyBlacklist(token), MapRemove(map, investor))
      IN  Commit("blacklist_remove", s1, EvBlRem(token, caller, investor))

\* ---------------------------------------------------------------------
\* Specification
\* ---------------------------------------------------------------------

Init ==
    /\ storage = [k \in DataKey |-> None]
    /\ events = << >>
    /\ lastCall = "none"
    /\ result = "Ok"
    /\ ret = Unit
    /\ walk = NoWalk

\* The four mutating entry points return "()".
ReturnsUnit == ret' = Unit /\ UNCHANGED walk

RegisterOffering ==
    /\ \E i \in Addresses, t \in Addresses, b \in BpsValues, a \in BOOLEAN :
          register_offering(i, t, b, a)
    /\ ReturnsUnit

ReportRevenue ==
    /\ \E i \in Addresses, t \in Addresses, m \in Amounts, p \in Periods,
          a \in BOOLEAN :
          report_revenue(i, t, m, p, a)
    /\ ReturnsUnit

BlacklistAdd ==
    /\ \E c \in Addresses, t \in Addresses, v \in Addresses, a \in BOOLEAN :
          blacklist_add(c, t, v, a)
    /\ ReturnsUnit

BlacklistRemove ==
    /\ \E c \in Addresses, t \in Addresses, v \in Addresses, a \in BOOLEAN :
          blacklist_remove(c, t, v, a)
    /\ ReturnsUnit

Next ==
    \/ RegisterOffering
    \/ ReportRevenue
    \/ BlacklistAdd
    \/ BlacklistRemove

Spec == Init /\ [][Next]_vars

\* ---------------------------------------------------------------------
\* Specification of the queries: the read-only entry points, called in
\* the states that authorized calls of the mutating entry points reach.
\* The queries take no authorization and have no panicking path.
\* ---------------------------------------------------------------------

\* A read-only entry point op returns value.
Query(op, value) ==
    /\ lastCall' = op
    /\ result' = "Ok"
    /\ ret' = value
    /\ UNCHANGED <<storage, events, walk>>

GetOffering ==
    \E i \in Addresses, t \in Addresses :
        Query("get_offering", get_offering(storage, i, t))

ListOfferings ==
    \E i \in Addresses : Query("list_offerings", list_offerings(storage, i))

IsBlacklisted ==
    \E t \in Addresses, v \in Addresses :
        Query("is_blacklisted", is_blacklisted(storage, t, v))

GetBlacklist ==
    \E t \in Addresses : Query("get_blacklist", get_blacklist(storage, t))

Mutate ==
    /\ \/ \E i \in Addresses, t \in Addresses, b \in BpsValues :
             register_offering(i, t, b, TRUE)
       \/ \E c \in Addresses, t \in Addresses, v \in Addresses :
             blacklist_add(c, t, v, TRUE)
       \/ \E c \in Addresses, t \in Addresses, v \in Addresses :
             blacklist_remove(c, t, v, TRUE)
    /\ ReturnsUnit

NextQuery ==
    \/ Mutate
    \/ GetOffering
    \/ ListOfferings
    \/ IsBlacklisted
    \/ GetBlacklist

SpecQuery == Init /\ [][NextQuery]_vars

\* ---------------------------------------------------------------------
\* Specifications of paging.  One address (the owner) has registered
\* count offerings and the other address one; a client then reads the
\* offerings of either address through get_offerings_page.
\* ---------------------------------------------------------------------

PageTokens == 1..MaxOfferings

\* The k-th registration of an issuer: tokens are registered in descending
\* order of their address, the k-th with revenue share (k - 1) * 10.
TokenAt(k) == MaxOfferings + 1 - k
BpsAt(k) == (k - 1) * 10

PageDataKey ==
    {KeyOffering(i, t) : i \in Addresses, t \in PageTokens}
    \cup {KeyIssuerOfferings(i) : i \in Addresses}

\* Storage after the first n registrations of issuer, starting from s.
RECURSIVE AfterRegistrations(_, _, _)
AfterRegistrations(s, issuer, n) ==
    IF n = 0 THEN s
    ELSE StoreOffering(AfterRegistrations(s, issuer, n - 1),
                       issuer, TokenAt(n), BpsAt(n))

\* Requested page sizes: the sentinel 0, small sizes, the maximum, and
\* sizes above the maximum.
PageLimits == {0, 1, 3, MAX_PAGE_LIMIT, MAX_PAGE_LIMIT + 1, 50}

InitPaging(starts) ==
    \E o \in Addresses, n \in 0..MaxOfferings, i \in Addresses,
       st \in starts, l \in PageLimits :
        /\ storage =
              AfterRegistrations(
                  AfterRegistrations([k \in PageDataKey |-> None],
                                     CHOOSE a \in Addresses : a # o, 1),
                  o, n)
        /\ events = << >>
        /\ lastCall = "none"
        /\ result = "Ok"
        /\ ret = Unit
        /\ walk = [owner |-> o, count |-> n, issuer |-> i, start |-> st,
                   limit |-> l, cursor |-> Some(st),
                   seen |-> << >>, sizes |-> << >>]

\* The client calls get_offerings_page(issuer, cursor, limit) with the
\* cursor it holds, keeps the items and takes over the returned cursor.
GetOfferingsPage ==
    /\ IsSome(walk.cursor)
    /\ Len(walk.sizes) <= MaxOfferings
    /\ LET page == get_offerings_page(storage, walk.issuer,
                                      Unwrap(walk.cursor), walk.limit)
       IN  /\ lastCall' = "get_offerings_page"
           /\ result' = "Ok"
           /\ ret' = page
           /\ walk' = [walk EXCEPT !.cursor = page[2],
                                   !.seen = @ \o page[1],
                                   !.sizes = Append(@, Len(page[1]))]
    /\ UNCHANGED <<storage, events>>

\* One call, from any start index.
FirstPage == walk.sizes = << >> /\ GetOfferingsPage

InitPage == InitPaging(0..(MaxOfferings + 1))
NextPage == FirstPage
SpecPage == InitPage /\ [][NextPage]_vars

\* Chained calls from index 0 until no cursor is returned.
InitWalk == InitPaging({0})
NextWalk == GetOfferingsPage
SpecWalk == InitWalk /\ [][NextWalk]_vars /\ WF_vars(GetOfferingsPage)

\* ---------------------------------------------------------------------
\* Type invariant
\* ---------------------------------------------------------------------

TypeOK ==
    /\ DOMAIN storage = DataKey
    /\ Len(events) <= MaxEvents
    /\ lastCall \in {"none", "register_offering", "report_revenue",
                     "blacklist_add", "blacklist_remove",
                     "get_offering", "list_offerings", "is_blacklisted",
                     "get_blacklist", "get_offerings_page"}
    /\ result \in {"Ok", "Unauthorized", "InvalidParameter", "AlreadyExists"}

\* ---------------------------------------------------------------------
\* Helpers of the properties
\* ---------------------------------------------------------------------

IsPrefix(u, v) == Len(u) <= Len(v) /\ \A k \in 1..Len(u) : u[k] = v[k]
NoDuplicates(v) == \A j, k \in 1..Len(v) : j # k => v[j] # v[k]
Registered(s, issuer) == {t \in Addresses : IsSome(get_offering(s, issuer, t))}

\* The step is an invocation of the entry point op.  Every entry point
\* sets lastCall, so Invoked(op) holds of each of its steps; the properties
\* test it before they match the step against the entry point applied to
\* each choice of arguments.
Invoked(op) == lastCall' = op

\* The offerings and the issuer indexes are the same before and after a step.
OfferingsUnchanged ==
    \A i \in Addresses :
        /\ list_offerings(storage', i) = list_offerings(storage, i)
        /\ \A t \in Addresses :
               get_offering(storage', i, t) = get_offering(storage, i, t)

\* ---------------------------------------------------------------------
\* C1
\* ---------------------------------------------------------------------

\* C1: in every reachable state and for every issuer, list_offerings(issuer)
\* has no duplicates and its set of tokens is exactly the set of tokens t
\* for which get_offering(issuer, t) is present.
C1_IndexMatchesOfferings ==
    \A i \in Addresses :
        /\ NoDuplicates(list_offerings(storage, i))
        /\ VecSet(list_offerings(storage, i)) = Registered(storage, i)

\* An issuer with two offerings right after a rejected duplicate registration.
C1_Witness ==
    /\ lastCall = "register_offering"
    /\ result = "AlreadyExists"
    /\ \E i \in Addresses : Len(list_offerings(storage, i)) = 2

\* ---------------------------------------------------------------------
\* C2
\* ---------------------------------------------------------------------

\* C2: for every bps in 0..10000 and every (issuer, token) not yet
\* registered, an authorized register_offering(issuer, token, bps) succeeds
\* and get_offering(issuer, token) then returns a record with that issuer,
\* token and bps and with status Active.
C2_RegisterThenGet ==
    [][Invoked("register_offering") =>
       \A i \in Addresses, t \in Addresses, b \in BpsValues :
          ( /\ b <= MaxBps
            /\ ~IsSome(get_offering(storage, i, t))
            /\ register_offering(i, t, b, TRUE) )
          => /\ result' = "Ok"
             /\ get_offering(storage', i, t)
                    = Some(Offering(i, t, b, "Active"))]_vars

\* A registration with the largest valid bps has just succeeded.
C2_Witness ==
    /\ lastCall = "register_offering"
    /\ result = "Ok"
    /\ \E i \in Addresses, t \in Addresses :
          /\ events[Len(events)] = EvOfferReg(i, t, MaxBps)
          /\ get_offering(storage, i, t) = Some(Offering(i, t, MaxBps, "Active"))

\* ---------------------------------------------------------------------
\* C3
\* ---------------------------------------------------------------------

\* C3 as stated: when (issuer, token) is already registered, a second
\* register_offering(issuer, token, bps') fails with AlreadyExists for
\* every bps', and the stored record and the issuer's list are unchanged.
C3_Original ==
    [][Invoked("register_offering") =>
       \A i \in Addresses, t \in Addresses :
          IsSome(get_offering(storage, i, t)) =>
          \A b \in BpsValues, a \in BOOLEAN :
             register_offering(i, t, b, a)
             => /\ result' = "AlreadyExists"
                /\ get_offering(storage', i, t) = get_offering(storage, i, t)
                /\ list_offerings(storage', i) = list_offerings(storage, i)]_vars

\* C3 amended: when (issuer, token) is already registered, an authorized
\* second register_offering(issuer, token, bps') with bps' <= 10000 fails
\* with AlreadyExists (equal or different bps'); with bps' > 10000 it fails
\* with InvalidParameter and without authorization with Unauthorized; in
\* every case the first record and list_offerings(issuer) are unchanged.
C3_DuplicateRejected ==
    [][Invoked("register_offering") =>
       \A i \in Addresses, t \in Addresses :
          IsSome(get_offering(storage, i, t)) =>
          LET same ==
                /\ get_offering(storage', i, t) = get_offering(storage, i, t)
                /\ list_offerings(storage', i) = list_offerings(storage, i)
          IN  \A b \in BpsValues, a \in BOOLEAN :
                 register_offering(i, t, b, a)
                 => /\ result' = IF ~a THEN "Unauthorized"
                                 ELSE IF b > MaxBps THEN "InvalidParameter"
                                 ELSE "AlreadyExists"
                    /\ same]_vars

\* A duplicate registration was rejected and the single record is in place.
C3_Witness ==
    /\ lastCall = "register_offering"
    /\ result = "AlreadyExists"
    /\ \E i \in Addresses, t \in Addresses, b \in BpsValues :
          /\ events = <<EvOfferReg(i, t, b)>>
          /\ get_offering(storage, i, t) = Some(Offering(i, t, b, "Active"))
          /\ list_offerings(storage, i) = <<t>>

\* ---------------------------------------------------------------------
\* C4
\* ---------------------------------------------------------------------

\* C4 as stated: register_offering with revenue_share_bps > 10000 always
\* fails with InvalidParameter and leaves the offerings and indexes unchanged.
C4_Original ==
    [][Invoked("register_offering") =>
       \A i \in Addresses, t \in Addresses, b \in BpsValues, a \in BOOLEAN :
          (b > MaxBps /\ register_offering(i, t, b, a))
          => (result' = "InvalidParameter" /\ OfferingsUnchanged)]_vars

\* C4 amended: an authorized register_offering with revenue_share_bps >
\* 10000 always fails with InvalidParameter (an unauthorized one fails with
\* Unauthorized), in every reachable state, and either way leaves storage,
\* hence every issuer's index and every stored offering, unchanged.
C4_InvalidBpsRejected ==
    [][Invoked("register_offering") =>
       \A i \in Addresses, t \in Addresses, b \in BpsValues, a \in BOOLEAN :
          (b > MaxBps /\ register_offering(i, t, b, a))
          => /\ result' = IF a THEN "InvalidParameter" ELSE "Unauthorized"
             /\ storage' = storage]_vars

\* An out-of-range registration was rejected in a state holding offerings.
C4_Witness ==
    /\ lastCall = "register_offering"
    /\ result = "InvalidParameter"
    /\ \E i \in Addresses : Len(list_offerings(storage, i)) >= 1

\* ---------------------------------------------------------------------
\* C5
\* ---------------------------------------------------------------------

\* C5: when caller authorization fails, each of register_offering,
\* blacklist_add, blacklist_remove and report_revenue fails with
\* Unauthorized, whatever its other arguments, and leaves all persisted
\* state unchanged.
C5_UnauthorizedNoEffect ==
    [][( \/ /\ Invoked("register_offering")
            /\ \E i \in Addresses, t \in Addresses, b \in BpsValues :
                  register_offering(i, t, b, FALSE)
         \/ /\ Invoked("blacklist_add")
            /\ \E c \in Addresses, t \in Addresses, v \in Addresses :
                  blacklist_add(c, t, v, FALSE)
         \/ /\ Invoked("blacklist_remove")
            /\ \E c \in Addresses, t \in Addresses, v \in Addresses :
                  blacklist_remove(c, t, v, FALSE)
         \/ /\ Invoked("report_revenue")
            /\ \E i \in Addresses, t \in Addresses, m \in Amounts, p \in Periods :
                  report_revenue(i, t, m, p, FALSE) )
       => (result' = "Unauthorized" /\ storage' = storage)]_vars

\* An unauthorized blacklist_remove was rejected while an offering and a
\* blacklist entry are stored.
C5_Witness ==
    /\ lastCall = "blacklist_remove"
    /\ result = "Unauthorized"
    /\ \E i \in Addresses : Len(list_offerings(storage, i)) = 1
    /\ \E t \in Addresses : Len(get_blacklist(storage, t)) = 1

\* ---------------------------------------------------------------------
\* C6
\* ---------------------------------------------------------------------

\* C6: across any single operation the old list_offerings(issuer) is a
\* prefix of the new one, and a successful register_offering(issuer,
\* token, _) extends the list by exactly that token at the end.
C6_IndexAppendOnly ==
    [][/\ \A i \in Addresses :
             IsPrefix(list_offerings(storage, i), list_offerings(storage', i))
       /\ \A i \in Addresses, t \in Addresses, b \in BpsValues, a \in BOOLEAN :
             (Invoked("register_offering") /\ result' = "Ok"
                /\ register_offering(i, t, b, a))
             => list_offerings(storage', i)
                    = Append(list_offerings(storage, i), t)]_vars

\* A second offering of an issuer was appended behind the first.
C6_Witness ==
    /\ lastCall = "register_offering"
    /\ result = "Ok"
    /\ \E i \in Addresses, t \in Addresses, u \in Addresses,
          b \in BpsValues, d \in BpsValues :
          /\ t # u
          /\ events = <<EvOfferReg(i, t, b), EvOfferReg(i, u, d)>>
          /\ list_offerings(storage, i) = <<t, u>>

\* ---------------------------------------------------------------------
\* C7
\* ---------------------------------------------------------------------

\* C7: once get_offering(issuer, token) returns a record, every later
\* state returns the identical record, and its status is Active.
C7_OfferingImmutable ==
    [][\A i \in Addresses, t \in Addresses :
          IsSome(get_offering(storage, i, t))
          => /\ get_offering(storage', i, t) = get_offering(storage, i, t)
             /\ Unwrap(get_offering(storage', i, t)).status = "Active"]_vars

\* An offering is stored and a blacklist update has run after it.
C7_Witness ==
    /\ lastCall = "blacklist_add"
    /\ result = "Ok"
    /\ \E i \in Addresses, t \in Addresses :
          /\ IsSome(get_offering(storage, i, t))
          /\ is_blacklisted(storage, t, i)

\* ---------------------------------------------------------------------
\* C8
\* ---------------------------------------------------------------------

\* C8: an authorized blacklist_add(caller, token, investor) does not fail
\* and leaves token's blacklist equal to the old set plus investor:
\* is_blacklisted(token, investor) is true afterwards, get_blacklist(token)
\* lists the investor once, and if the investor was already present the
\* blacklist is unchanged.
C8_AddInsertsIdempotently ==
    [][\A c \in Addresses, t \in Addresses, v \in Addresses :
          (Invoked("blacklist_add") /\ blacklist_add(c, t, v, TRUE))
          => /\ result' = "Ok"
             /\ is_blacklisted(storage', t, v)
             /\ NoDuplicates(get_blacklist(storage', t))
             /\ VecSet(get_blacklist(storage', t))
                    = VecSet(get_blacklist(storage, t)) \cup {v}
             /\ \A w \in Addresses :
                    is_blacklisted(storage', t, w)
                        = (w = v \/ is_blacklisted(storage, t, w))
             /\ is_blacklisted(storage, t, v)
                    => get_blacklist(storage', t) = get_blacklist(storage, t)]_vars

\* The same investor was added twice to one token; it is listed once.
C8_Witness ==
    /\ lastCall = "blacklist_add"
    /\ result = "Ok"
    /\ \E c \in Addresses, d \in Addresses, t \in Addresses, v \in Addresses :
          /\ events = <<EvBlAdd(t, c, v), EvBlAdd(t, d, v)>>
          /\ get_blacklist(storage, t) = <<v>>

\* ---------------------------------------------------------------------
\* C9
\* ---------------------------------------------------------------------

\* C9: an authorized blacklist_remove(caller, token, investor) never fails
\* and leaves token's blacklist equal to the old set minus investor:
\* is_blacklisted(token, investor) is false afterwards and the membership
\* of every other investor is unchanged, also when the investor was never
\* added or the token has no blacklist yet.
C9_RemoveDeletesIdempotently ==
    [][\A c \in Addresses, t \in Addresses, v \in Addresses :
          (Invoked("blacklist_remove") /\ blacklist_remove(c, t, v, TRUE))
          => /\ result' = "Ok"
             /\ ~is_blacklisted(storage', t, v)
             /\ VecSet(get_blacklist(storage', t))
                    = VecSet(get_blacklist(storage, t)) \ {v}
             /\ \A w \in Addresses \ {v} :
                    is_blacklisted(storage', t, w)
                        = is_blacklisted(storage, t, w)]_vars

\* A never-added investor was removed from a token whose blacklist holds
\* another investor, who is still blacklisted.
C9_Witness ==
    /\ lastCall = "blacklist_remove"
    /\ result = "Ok"
    /\ \E c \in Addresses, d \in Addresses, t \in Addresses,
          v \in Addresses, w \in Addresses :
          /\ v # w
          /\ events = <<EvBlAdd(t, c, w), EvBlRem(t, d, v)>>
          /\ is_blacklisted(storage, t, w)
          /\ ~is_blacklisted(storage, t, v)

\* ---------------------------------------------------------------------
\* C10
\* ---------------------------------------------------------------------

\* C10: blacklist_add or blacklist_remove on token A leaves
\* is_blacklisted(B, X) and get_blacklist(B) unchanged for every token B
\* different from A and every investor X.
C10_BlacklistsIsolated ==
    [][\A A \in Addresses :
          (\E c \in Addresses, v \in Addresses, a \in BOOLEAN :
              \/ Invoked("blacklist_add") /\ blacklist_add(c, A, v, a)
              \/ Invoked("blacklist_remove") /\ blacklist_remove(c, A, v, a))
          => \A B \in Addresses \ {A} :
                /\ get_blacklist(storage', B) = get_blacklist(storage, B)
                /\ \A X \in Addresses :
                      is_blacklisted(storage', B, X)
                          = is_blacklisted(storage, B, X)]_vars

\* Investor X is blacklisted for token B, then was removed from token A:
\* X is still blacklisted for B.
C10_Witness ==
    /\ lastCall = "blacklist_remove"
    /\ result = "Ok"
    /\ \E c \in Addresses, d \in Addresses, A \in Addresses,
          B \in Addresses, X \in Addresses :
          /\ A # B
          /\ events = <<EvBlAdd(B, c, X), EvBlRem(A, d, X)>>
          /\ is_blacklisted(storage, B, X)
          /\ ~is_blacklisted(storage, A, X)

\* ---------------------------------------------------------------------
\* C11
\* ---------------------------------------------------------------------

\* C11: every successful report_revenue(issuer, token, amount, period_id)
\* emits exactly one notification, carrying (issuer, token, amount,
\* period_id) and a blacklist payload equal to get_blacklist(token) in the
\* state at call time (empty when the blacklist is empty): the payload is
\* the membership of that single state, whatever calls came before.
C11_ReportCarriesSnapshot ==
    [][Invoked("report_revenue") =>
       \A i \in Addresses, t \in Addresses, m \in Amounts, p \in Periods :
          report_revenue(i, t, m, p, TRUE)
          => LET payload == get_blacklist(storage, t) IN
             /\ result' = "Ok"
             /\ events' = Append(events,
                                 EvRevenueReported(i, t, m, p, payload))
             /\ NoDuplicates(payload)
             /\ VecSet(payload)
                    = {v \in Addresses : is_blacklisted(storage, t, v)}
             /\ payload = get_blacklist(storage', t)]_vars

\* An investor was blacklisted for a token and the report that followed
\* carries exactly that investor.
C11_Witness ==
    /\ lastCall = "report_revenue"
    /\ result = "Ok"
    /\ \E i \in Addresses, c \in Addresses, t \in Addresses, v \in Addresses,
          m \in Amounts, p \in Periods :
          events = <<EvBlAdd(t, c, v), EvRevenueReported(i, t, m, p, <<v>>)>>

\* ---------------------------------------------------------------------
\* C12
\* ---------------------------------------------------------------------

\* C12: report_revenue, successful or failed, leaves persisted state as it
\* was: every offering, every issuer index and every token's blacklist.
C12_ReportLeavesStorage ==
    [][Invoked("report_revenue") => storage' = storage]_vars

\* A report was emitted for a registered offering, which is still stored.
C12_Witness ==
    /\ lastCall = "report_revenue"
    /\ result = "Ok"
    /\ \E i \in Addresses, t \in Addresses, b \in BpsValues,
          m \in Amounts, p \in Periods :
          /\ events = <<EvOfferReg(i, t, b),
                        EvRevenueReported(i, t, m, p, << >>)>>
          /\ get_offering(storage, i, t) = Some(Offering(i, t, b, "Active"))
          /\ list_offerings(storage, i) = <<t>>

\* ---------------------------------------------------------------------
\* C16
\* ---------------------------------------------------------------------

\* C16: every successful register_offering, blacklist_add, blacklist_remove
\* or report_revenue appends exactly one notification to the end of the
\* event log and a failed call appends none; the registration notification
\* carries (issuer, token, revenue_share_bps), the add/remove notification
\* carries (token, caller, investor) and is emitted also when the call
\* leaves the membership as it was.
C16_OneEventPerSuccess ==
    [][/\ Invoked("register_offering") =>
          \A i \in Addresses, t \in Addresses, b \in BpsValues, a \in BOOLEAN :
             register_offering(i, t, b, a)
             => LET ok == a /\ b <= MaxBps
                            /\ ~IsSome(get_offering(storage, i, t)) IN
                /\ (result' = "Ok") = ok
                /\ events' = IF ok THEN Append(events, EvOfferReg(i, t, b))
                             ELSE events
       /\ Invoked("blacklist_add") =>
          \A c \in Addresses, t \in Addresses, v \in Addresses, a \in BOOLEAN :
             blacklist_add(c, t, v, a)
             => /\ (result' = "Ok") = a
                /\ events' = IF a THEN Append(events, EvBlAdd(t, c, v))
                             ELSE events
       /\ Invoked("blacklist_remove") =>
          \A c \in Addresses, t \in Addresses, v \in Addresses, a \in BOOLEAN :
             blacklist_remove(c, t, v, a)
             => /\ (result' = "Ok") = a
                /\ events' = IF a THEN Append(events, EvBlRem(t, c, v))
                             ELSE events
       /\ Invoked("report_revenue") =>
          \A i \in Addresses, t \in Addresses, m \in Amounts, p \in Periods,
             a \in BOOLEAN :
             report_revenue(i, t, m, p, a)
             => /\ (result' = "Ok") = a
                /\ IF a
                   THEN /\ Len(events') = Len(events) + 1
                        /\ SubSeq(events', 1, Len(events)) = events
                        /\ events'[Len(events')][1] = <<"rev_rep", i, t>>
                   ELSE events' = events]_vars

\* A registration, then the removal of an investor who was never listed:
\* both are in the log, in call order, and a rejected call added nothing.
C16_Witness ==
    /\ lastCall = "blacklist_add"
    /\ result = "Unauthorized"
    /\ \E i \in Addresses, t \in Addresses, b \in BpsValues,
          c \in Addresses, v \in Addresses :
          /\ events = <<EvOfferReg(i, t, b), EvBlRem(t, c, v)>>
          /\ get_blacklist(storage, t) = << >>

\* ---------------------------------------------------------------------
\* C17
\* ---------------------------------------------------------------------

\* C17: a register_offering by issuer A, successful or rejected, leaves
\* list_offerings(B) and get_offering(B, t) unchanged for every issuer B
\* different from A and every token t; so the same token can be registered
\* once by each of two issuers, each registration keeping its own bps.
C17_IssuersIsolated ==
    [][Invoked("register_offering") =>
       \A A \in Addresses :
          (\E t \in Addresses, b \in BpsValues, a \in BOOLEAN :
              register_offering(A, t, b, a))
          => \A B \in Addresses \ {A} :
                /\ list_offerings(storage', B) = list_offerings(storage, B)
                /\ \A u \in Addresses :
                      get_offering(storage', B, u) = get_offering(storage, B, u)]_vars

\* One token registered by two issuers with different bps; each issuer
\* lists it once and reads back its own bps.
C17_Witness ==
    /\ lastCall = "register_offering"
    /\ result = "Ok"
    /\ \E A \in Addresses, B \in Addresses, t \in Addresses :
          /\ A # B
          /\ events = <<EvOfferReg(A, t, 0), EvOfferReg(B, t, MaxBps)>>
          /\ get_offering(storage, A, t) = Some(Offering(A, t, 0, "Active"))
          /\ get_offering(storage, B, t) = Some(Offering(B, t, MaxBps, "Active"))
          /\ list_offerings(storage, A) = <<t>>
          /\ list_offerings(storage, B) = <<t>>

\* ---------------------------------------------------------------------
\* C18
\* ---------------------------------------------------------------------

\* Positions in the event log of the add/remove notifications for
\* (token, investor), of any caller.
BlEventsOf(token, investor) ==
    {k \in 1..Len(events) :
        /\ events[k][1][1] \in {"bl_add", "bl_rem"}
        /\ events[k][1][2] = token
        /\ events[k][2] = <<investor>>}

\* The latest add/remove notification for (token, investor) is an add.
LastCuratedIn(token, investor) ==
    LET K == BlEventsOf(token, investor) IN
    /\ K # {}
    /\ events[CHOOSE k \in K : \A j \in K : j <= k][1][1] = "bl_add"

\* C18: blacklist_add and blacklist_remove succeed for every caller whose
\* authorization succeeds and every token, whether or not the caller is an
\* issuer and whether or not an offering is registered for the token; the
\* resulting membership does not depend on who called: an investor is
\* blacklisted exactly when the latest add/remove for it, by any caller,
\* was an add.
C18_OpenCuration ==
    /\ [](\A t \in Addresses, v \in Addresses :
             is_blacklisted(storage, t, v) = LastCuratedIn(t, v))
    /\ [][/\ Invoked("blacklist_add") =>
             \A c \in Addresses, t \in Addresses, v \in Addresses :
                blacklist_add(c, t, v, TRUE)
                => (result' = "Ok" /\ is_blacklisted(storage', t, v))
          /\ Invoked("blacklist_remove") =>
             \A c \in Addresses, t \in Addresses, v \in Addresses :
                blacklist_remove(c, t, v, TRUE)
                => (result' = "Ok" /\ ~is_blacklisted(storage', t, v))]_vars

\* With no offering registered at all, caller A added an investor and a
\* different caller B removed it again.
C18_Witness ==
    /\ lastCall = "blacklist_remove"
    /\ result = "Ok"
    /\ \A i \in Addresses : list_offerings(storage, i) = << >>
    /\ \E A \in Addresses, B \in Addresses, t \in Addresses, v \in Addresses :
          /\ A # B
          /\ events = <<EvBlAdd(t, A, v), EvBlRem(t, B, v)>>
          /\ ~is_blacklisted(storage, t, v)

\* ---------------------------------------------------------------------
\* C19
\* ---------------------------------------------------------------------

\* C19: blacklist_add and blacklist_remove leave every offering and every
\* issuer index unchanged, and register_offering leaves every token's
\* blacklist unchanged, the blacklist of the registered token included.
C19_SubsystemsSeparate ==
    [][/\ (Invoked("blacklist_add") \/ Invoked("blacklist_remove"))
          => OfferingsUnchanged
       /\ Invoked("register_offering")
          => \A t \in Addresses :
                /\ Get(storage', KeyBlacklist(t)) = Get(storage, KeyBlacklist(t))
                /\ get_blacklist(storage', t) = get_blacklist(storage, t)
                /\ \A v \in Addresses :
                      is_blacklisted(storage', t, v)
                          = is_blacklisted(storage, t, v)]_vars

\* An investor was blacklisted for a token, then the token was registered
\* as an offering: the investor is still blacklisted.
C19_Witness ==
    /\ lastCall = "register_offering"
    /\ result = "Ok"
    /\ \E i \in Addresses, c \in Addresses, t \in Addresses, v \in Addresses,
          b \in BpsValues :
          /\ events = <<EvBlAdd(t, c, v), EvOfferReg(i, t, b)>>
          /\ get_blacklist(storage, t) = <<v>>
          /\ IsSome(get_offering(storage, i, t))

\* ---------------------------------------------------------------------
\* C20
\* ---------------------------------------------------------------------

\* C20: in every reachable state, for every token and investor,
\* is_blacklisted(token, investor) is true exactly when investor occurs in
\* get_blacklist(token); get_blacklist(token) lists no address twice; and
\* no stored blacklist entry carries the marker false.
C20_BlacklistViewsAgree ==
    \A t \in Addresses :
        /\ NoDuplicates(get_blacklist(storage, t))
        /\ \A v \in Addresses :
               is_blacklisted(storage, t, v)
                   = (v \in VecSet(get_blacklist(storage, t)))
        /\ LET o == Get(storage, KeyBlacklist(t)) IN
           IsSome(o) => \A k \in DOMAIN Unwrap(o) : Unwrap(o)[k] = TRUE

\* One token with a stored but emptied blacklist, another listing an
\* investor.
C20_Witness ==
    \E t \in Addresses, u \in Addresses, v \in Addresses :
        /\ t # u
        /\ Get(storage, KeyBlacklist(t)) = Some(MapNew)
        /\ get_blacklist(storage, u) = <<v>>
        /\ lastCall = "blacklist_remove"
        /\ result = "Ok"

\* ---------------------------------------------------------------------
\* C13
\* ---------------------------------------------------------------------

\* Number of offerings the address i has registered.
Registrations(i) == IF i = walk.owner THEN walk.count ELSE 1

\* The offerings of i in the order of their registration.
Created(i) ==
    [k \in 1..Registrations(i) |-> Offering(i, TokenAt(k), BpsAt(k), "Active")]

\* C13: with count the issuer's number of offerings and effective_limit 20
\* when limit is 0 or above 20 and limit otherwise,
\* get_offerings_page(issuer, start, limit) returns (empty, None) when
\* start >= count, and otherwise the offerings at indices
\* [start, min(start + effective_limit, count)) in creation order with next
\* cursor Some(end) when end < count and None when end = count.
C13_PageContract ==
    lastCall = "get_offerings_page" =>
        LET count == Registrations(walk.issuer)
            effective_limit == IF walk.limit = 0 \/ walk.limit > 20
                               THEN 20 ELSE walk.limit
            end == IF walk.start + effective_limit <= count
                   THEN walk.start + effective_limit ELSE count
        IN  /\ result = "Ok"
            /\ walk.start >= count => ret = << << >>, None >>
            /\ walk.start < count =>
                 /\ ret[1] = [k \in 1..(end - walk.start) |->
                                 Created(walk.issuer)[walk.start + k]]
                 /\ end < count => ret[2] = Some(end)
                 /\ end = count => ret[2] = None

\* 25 offerings read from index 0 with limit 50: a page of 20 and cursor 20.
C13_Witness ==
    /\ lastCall = "get_offerings_page"
    /\ walk.issuer = walk.owner
    /\ walk.count = 25
    /\ walk.start = 0
    /\ walk.limit = 50
    /\ Len(ret[1]) = 20
    /\ ret[2] = Some(20)

\* ---------------------------------------------------------------------
\* C14
\* ---------------------------------------------------------------------

\* C14: calling get_offerings_page(issuer, cursor, L) from cursor 0 and
\* feeding each returned cursor back in visits every offering of the
\* issuer exactly once, in creation order, and ends with cursor None after
\* finitely many calls.
C14_CursorChaining ==
    /\ [](IsPrefix(walk.seen, Created(walk.issuer)))
    /\ [](walk.cursor = None => walk.seen = Created(walk.issuer))
    /\ <>(walk.cursor = None)

\* 7 offerings read with limit 3: pages of 3, 3 and 1, then no cursor.
C14_Witness ==
    /\ walk.issuer = walk.owner
    /\ walk.count = 7
    /\ walk.limit = 3
    /\ walk.sizes = <<3, 3, 1>>
    /\ walk.cursor = None

\* ---------------------------------------------------------------------
\* C15
\* ---------------------------------------------------------------------

\* No registration of (issuer, token) was ever committed.
NeverRegistered(issuer, token) ==
    \A k \in 1..Len(events) :
        ~(events[k][1] = <<"offer_reg", issuer>> /\ events[k][2][1] = token)

\* No blacklist update for token was ever committed.
NeverCurated(token) ==
    \A k \in 1..Len(events) :
        ~(events[k][1][1] \in {"bl_add", "bl_rem"} /\ events[k][1][2] = token)

\* C15: the queries never fail and change no state, in any reachable state
\* and without authorization: get_offering returns None for an
\* unregistered pair, list_offerings the empty sequence for an issuer with
\* no offerings, is_blacklisted false and get_blacklist the empty sequence
\* for a token with no blacklist.
C15_QueriesTotalAndPure ==
    [][/\ lastCall' \in {"get_offering", "list_offerings",
                         "is_blacklisted", "get_blacklist"}
          => (result' = "Ok" /\ storage' = storage /\ events' = events)
       /\ Invoked("get_offering") =>
          \A i \in Addresses, t \in Addresses :
             (NeverRegistered(i, t)
                /\ Query("get_offering", get_offering(storage, i, t)))
             => ret' = None
       /\ Invoked("list_offerings") =>
          \A i \in Addresses :
             ((\A t \in Addresses : NeverRegistered(i, t))
                /\ Query("list_offerings", list_offerings(storage, i)))
             => ret' = << >>
       /\ Invoked("is_blacklisted") =>
          \A t \in Addresses, v \in Addresses :
             (NeverCurated(t)
                /\ Query("is_blacklisted", is_blacklisted(storage, t, v)))
             => ret' = FALSE
       /\ Invoked("get_blacklist") =>
          \A t \in Addresses :
             (NeverCurated(t)
                /\ Query("get_blacklist", get_blacklist(storage, t)))
             => ret' = << >>]_vars

\* is_blacklisted answered false while one pair is registered and nothing
\* was ever blacklisted.
C15_Witness ==
    /\ lastCall = "is_blacklisted"
    /\ result = "Ok"
    /\ ret = FALSE
    /\ \A t \in Addresses : NeverCurated(t)
    /\ Len(events) = 1

====
